---------------------------- MODULE Spec2Model ----------------------------
(***************************************************************************)
(* A model of tfl-pi: the TfL arrivals client, the departures module       *)
(* (aggregation, panel layout, row rendering), the PIL renderer and the    *)
(* main loop of the application.                                           *)
(*                                                                         *)
(* Strings that the code slices (destinations) are sequences of one-       *)
(* character strings; a Python dict is a function whose DOMAIN is the set  *)
(* of keys present, so that dict.get(key, default) is modelled by Get.     *)
(***************************************************************************)
EXTENDS Integers, Sequences, FiniteSets, TLC

VARIABLES
    stop_ids,      \* departures module: source -> whether a stop_id is configured
    departures,    \* departures module: self.departures, mode -> list of records
    fetched,       \* history: what get_arrivals returned to the last update()
    queried,       \* history: the sources the last update() called get_arrivals for
    glyph_width,   \* the destination font: character -> measured width in pixels
    row_in,        \* the arguments of a _render_departure_row call
    row_out,       \* what the last _render_departure_row call drew
    position,      \* departures module: self.position, (x, y)
    size,          \* departures module: self.size, (width, height)
    departure_font_size,  \* departures module: self.departure_font_size
    panels,        \* what the last render() drew in each panel, by mode
    modules,       \* the list of modules handed to render_modules
    r_width,       \* renderer: self.width
    r_height,      \* renderer: self.height
    image,         \* renderer: self.image (exists = FALSE for None)
    draw,          \* renderer: self.draw ("None" or the handle "Draw")
    canvas_called, \* history: create_canvas or render_modules has been called
    r_last,        \* history: the last call on the renderer and its outcome
    config,        \* the 'enabled' settings of config.json
    pc,            \* application: where TfLPiApp.run is
    running,       \* application: self.running
    cursor,        \* application: the module update_modules is at
    tick_log,      \* history: what the tick in progress (or just ended) did
    epd,           \* the display sink: what it was handed, asleep, closed
    signal_at,     \* history: where run() was when the first signal reached it
    received,      \* history: handle_signal has run ("Received signal" is logged)
    boot,          \* startup: the config file, the display driver, how init went
    exit_status,   \* the status the process exited with ("none" while it runs)
    font_files,    \* the font files of the system: path -> whether it loads
    font_last,     \* history: the last font request and what it returned
    clock,         \* clock module: its formats, self.current_time, self.current_date
    clock_out      \* what the last ClockModule.render drew

varsDepartures == <<stop_ids, departures, fetched, queried>>
varsRow == <<glyph_width, row_in, row_out>>
varsModule == <<position, size, departure_font_size>>
varsPanel == <<position, size, departure_font_size, panels>>
varsRenderer == <<modules, r_width, r_height, image, draw, canvas_called, r_last>>
varsApp == <<config, pc, running, cursor, tick_log, epd, signal_at, received>>
varsMain == <<boot, exit_status>>
varsFonts == <<font_files, font_last>>
varsClock == <<clock, clock_out>>
vars == <<stop_ids, departures, fetched, queried, glyph_width, row_in, row_out,
          position, size, departure_font_size, panels,
          modules, r_width, r_height, image, draw, canvas_called, r_last,
          config, pc, running, cursor, tick_log, epd, signal_at, received,
          boot, exit_status, font_files, font_last, clock, clock_out>>

(***************************************************************************)
(* Bounds of the model.                                                    *)
(***************************************************************************)
\* the raw arrivals one update() receives over its (up to) four responses
MaxFetched == 2
\* the longest destination, in characters
MaxDestLen == 5
\* the widest glyph of the destination font, in pixels
MaxGlyphWidth == 2
\* the largest width left for the destination of a row, in pixels
MaxDestWidth == 6
\* the largest minutes_until of a rendered row
MaxMinutes == 2
\* the tallest departures module, in pixels
MaxModuleHeight == 200
\* the longest per-mode list a panel is given
MaxDepartures == 4
\* the longest list of modules
MaxModules == 2
\* the largest font size requested, in points
MaxFontSize == 3

(***************************************************************************)
(* Python helpers.                                                         *)
(***************************************************************************)
\* dict.get(key, default)
Get(d, k, default) == IF k \in DOMAIN d THEN d[k] ELSE default

\* str.lower() on the direction labels the API sends
Lower(s) ==
    CASE s = "Outbound" -> "outbound"
      [] s = "Inbound"  -> "inbound"
      [] OTHER          -> s

\* list[:n] for n >= 0
Take(s, n) == SubSeq(s, 1, IF n < Len(s) THEN n ELSE Len(s))

\* Python's sort is stable: an element goes after every element whose key is
\* not greater than its own.  Elements are <<key, item>> pairs.
RECURSIVE InsertKeyed(_, _)
InsertKeyed(p, s) ==
    IF s = <<>> THEN <<p>>
    ELSE IF Head(s)[1] <= p[1] THEN <<Head(s)>> \o InsertKeyed(p, Tail(s))
    ELSE <<p>> \o s

RECURSIVE StableSortKeyed(_)
StableSortKeyed(ps) ==
    IF ps = <<>> THEN <<>>
    ELSE InsertKeyed(ps[Len(ps)], StableSortKeyed(SubSeq(ps, 1, Len(ps) - 1)))

Items(ps) == [i \in 1..Len(ps) |-> ps[i][2]]

(***************************************************************************)
(* lib/display/renderer.py: get_default_font, get_bold_font                *)
(***************************************************************************)
DejaVuSans == "dejavu/DejaVuSans.ttf"
LiberationSans == "liberation/LiberationSans-Regular.ttf"
DejaVuSansBold == "dejavu/DejaVuSans-Bold.ttf"
LiberationSansBold == "liberation/LiberationSans-Bold.ttf"

FontFiles == {DejaVuSans, LiberationSans, DejaVuSansBold, LiberationSansBold}

\* a font handle; ok = FALSE stands for the OSError of a file that does not load
Font(face, points) == [ok |-> TRUE, face |-> face, size |-> points]
FontOSError == [ok |-> FALSE, face |-> "", size |-> 0]

\* ImageFont.truetype(path, points)
Truetype(path, points) == IF font_files[path] THEN Font(path, points) ELSE FontOSError

\* ImageFont.load_default()
LoadDefault == Font("builtin", 0)

\* Renderer.get_default_font
GetDefaultFont(points) ==
    IF Truetype(DejaVuSans, points).ok THEN Truetype(DejaVuSans, points)
    ELSE IF Truetype(LiberationSans, points).ok THEN Truetype(LiberationSans, points)
    ELSE LoadDefault

\* (mutant) the last fallback going to the built-in font directly
GetBoldFontNoRegular(points) ==
    IF Truetype(DejaVuSansBold, points).ok THEN Truetype(DejaVuSansBold, points)
    ELSE IF Truetype(LiberationSansBold, points).ok
         THEN Truetype(LiberationSansBold, points)
    ELSE LoadDefault

\* Renderer.get_bold_font
GetBoldFont(points) ==
    IF Truetype(DejaVuSansBold, points).ok THEN Truetype(DejaVuSansBold, points)
    ELSE IF Truetype(LiberationSansBold, points).ok
         THEN Truetype(LiberationSansBold, points)
    ELSE GetDefaultFont(points)

NoFontRequest == [op |-> "none", size |-> 0, font |-> FontOSError]

FontsIdle ==
    /\ font_files = [f \in FontFiles |-> TRUE]
    /\ font_last = NoFontRequest

(***************************************************************************)
(* lib/modules/clock.py                                                    *)
(***************************************************************************)
None == "None"

\* datetime.now(), formatted
Times == {"09:00", "09:01"}
Dates == {"Monday", "Tuesday"}

\* ClockModule.__init__: whether strftime accepts the configured formats
\* (it raises for a format that is not a string), and no time held yet
NewClock(time_format_ok, date_format_ok) ==
    [time_format_ok |-> time_format_ok, date_format_ok |-> date_format_ok,
     current_time |-> None, current_date |-> None]

\* ClockModule.update: the assignments made before an exception, which the
\* method catches, ends it
ClockUpdated(c, time, date) ==
    IF ~c.time_format_ok THEN c
    ELSE IF ~c.date_format_ok THEN [c EXCEPT !.current_time = time]
    ELSE [c EXCEPT !.current_time = time, !.current_date = date]

\* draw.text(xy, text, ...): raises for a text that is None
DrawTextRaises(text) == text = None

\* ClockModule.render after its `if not self.current_time: self.update()`:
\* the texts drawn before an exception, which the method catches, ends it
ClockDrawn(c) ==
    IF DrawTextRaises(c.current_time) THEN <<>>
    ELSE IF DrawTextRaises(c.current_date) THEN <<c.current_time>>
    ELSE <<c.current_time, c.current_date>>

NoClockRender == [rendered |-> FALSE, raised |-> FALSE, drawn |-> <<>>]

ClockIdle ==
    /\ clock = NewClock(TRUE, TRUE)
    /\ clock_out = NoClockRender

(***************************************************************************)
(* lib/api/tfl_client.py                                                   *)
(***************************************************************************)
Arrival(line, dest, dir) ==
    [lineName |-> line, destinationName |-> dest, direction |-> dir]

TimedArrival(line, dest, dir, secs) ==
    [lineName |-> line, destinationName |-> dest, direction |-> dir,
     timeToStation |-> secs]

\* The raw arrivals the API may send for a stop point.  A destination is a
\* sequence of characters.
RawPool ==
    { TimedArrival("District", <<"E", "a", "l">>, "outbound", 120),
      TimedArrival("District", <<"R", "i", "c">>, "Outbound", 119),
      TimedArrival("D3",       <<"U", "p", "m">>, "inbound", 150),
      Arrival("135",           <<"T", "o", "w">>, "inbound") }

\* _parse_arrival
ParseArrival(a) ==
    [line_name       |-> Get(a, "lineName", "Unknown"),
     destination     |-> Get(a, "destinationName", <<"U", "n", "k", "n", "o", "w", "n">>),
     direction       |-> Get(a, "direction", ""),
     time_to_station |-> Get(a, "timeToStation", 0),
     minutes_until   |-> Get(a, "timeToStation", 0) \div 60]

\* arrivals.sort(key=lambda x: x.get('timeToStation', 999999))
SortByTimeToStation(arrivals) ==
    Items(StableSortKeyed(
        [i \in 1..Len(arrivals) |->
            <<Get(arrivals[i], "timeToStation", 999999), arrivals[i]>>]))

\* the direction filter of get_arrivals
FilterDirection(arrivals, direction) ==
    SelectSeq(arrivals, LAMBDA a : Lower(Get(a, "direction", "")) = Lower(direction))

\* get_arrivals: a response is [status, body]; any failure yields [].
GetArrivals(response, direction, max_results) ==
    IF response.status # "ok" THEN <<>>
    ELSE LET sorted == SortByTimeToStation(FilterDirection(response.body, direction))
         IN  [i \in 1..Len(Take(sorted, max_results)) |-> ParseArrival(sorted[i])]

(***************************************************************************)
(* lib/modules/tfl_departures.py: update                                   *)
(***************************************************************************)
Sources == {"westbound_tube", "eastbound_tube", "westbound_bus", "eastbound_bus"}
Modes == {"tube", "bus"}

\* the working list a source's records go to
ModeOfSource(source) ==
    IF source \in {"westbound_tube", "eastbound_tube"} THEN "tube" ELSE "bus"

DirectionOf(source) ==
    IF source \in {"westbound_tube", "westbound_bus"} THEN "outbound" ELSE "inbound"

\* (mutant) the bus filter with the threshold off by one
CatchableBusFromOne(d) == Get(d, "minutes_until", 0) >= 1

\* the bus filter: d.get('minutes_until', 0) >= 2
CatchableBus(d) == Get(d, "minutes_until", 0) >= 2

FilterBuses(ds) == SelectSeq(ds, CatchableBus)

\* (mutant) a sort that is ascending but puts later equal keys first
SortedByMinutesUnstable(ds) ==
    LET rev == [i \in 1..Len(ds) |-> ds[Len(ds) + 1 - i]]
    IN  Items(StableSortKeyed(
            [i \in 1..Len(rev) |-> <<Get(rev[i], "minutes_until", 999), rev[i]>>]))

\* sorted(ds, key=lambda d: d.get('minutes_until', 999))
SortedByMinutes(ds) ==
    Items(StableSortKeyed(
        [i \in 1..Len(ds) |-> <<Get(ds[i], "minutes_until", 999), ds[i]>>]))

\* (mutant) an assignment where the code extends the working list
ExtendReplacing(all_departures, ds) == IF ds # <<>> THEN ds ELSE all_departures

\* if departures: all_departures.extend(departures)
Extend(all_departures, ds) == IF ds # <<>> THEN all_departures \o ds ELSE all_departures

\* What one source contributes: nothing when it has no stop_id.
Fetch(source, responses) ==
    IF stop_ids[source]
    THEN GetArrivals(responses[source], DirectionOf(source), 20)
    ELSE <<>>

NotQueried == [status |-> "none", body |-> <<>>]

\* The responses an update() may receive: a failure or a list of raw arrivals
\* for every configured source, at most MaxFetched raw arrivals in all.
RECURSIVE SumOver(_, _)
SumOver(f, S) ==
    IF S = {} THEN 0
    ELSE LET x == CHOOSE x \in S : TRUE IN f[x] + SumOver(f, S \ {x})

ResponseLengths ==
    { lens \in [Sources -> 0..MaxFetched] :
        /\ SumOver(lens, Sources) <= MaxFetched
        /\ \A s \in Sources : ~stop_ids[s] => lens[s] = 0 }

ResponsesFor(source, len) ==
    IF ~stop_ids[source] THEN {NotQueried}
    ELSE { [status |-> "ok", body |-> b] : b \in [1..len -> RawPool] }
         \cup (IF len = 0 THEN {[status |-> "error", body |-> <<>>]} ELSE {})

\* update() given what each request gets back
UpdateWith(responses) ==
    LET got == [s \in Sources |-> Fetch(s, responses)]
        all_tube_departures == Extend(Extend(<<>>, got["westbound_tube"]),
                                      got["eastbound_tube"])
        all_bus_departures  == Extend(Extend(<<>>, got["westbound_bus"]),
                                      got["eastbound_bus"])
    IN  /\ departures' = [tube |-> SortedByMinutes(all_tube_departures),
                          bus  |-> SortedByMinutes(FilterBuses(all_bus_departures))]
        /\ fetched' = got
        /\ queried' = {s \in Sources : stop_ids[s]}
        /\ UNCHANGED stop_ids

Update ==
    \E lens \in ResponseLengths :
      \E wt \in ResponsesFor("westbound_tube", lens["westbound_tube"]),
         et \in ResponsesFor("eastbound_tube", lens["eastbound_tube"]),
         wb \in ResponsesFor("westbound_bus", lens["westbound_bus"]),
         eb \in ResponsesFor("eastbound_bus", lens["eastbound_bus"]) :
        /\ UpdateWith([s \in Sources |->
                          CASE s = "westbound_tube" -> wt
                            [] s = "eastbound_tube" -> et
                            [] s = "westbound_bus"  -> wb
                            [] OTHER                -> eb])
        /\ UNCHANGED varsRow
        /\ UNCHANGED varsPanel
        /\ UNCHANGED <<varsClock, varsFonts, varsRenderer, varsApp, varsMain>>

InitDepartures ==
    /\ stop_ids \in [Sources -> BOOLEAN]
    /\ departures = [tube |-> <<>>, bus |-> <<>>]
    /\ fetched = [s \in Sources |-> <<>>]
    /\ queried = {}

(***************************************************************************)
(* lib/modules/tfl_departures.py: _render_departure_row                    *)
(***************************************************************************)
BadgeWidth == 70
TimeAllowance == 150
Padding == 10

Alphabet == {"a", "."}
Ellipsis == <<".", ".", ".">>
Unknown == <<"U", "n", "k", "n", "o", "w", "n">>

\* draw.textbbox((0, 0), text, font=dest_font): bbox[2] - bbox[0]
RECURSIVE TextWidth(_)
TextWidth(text) ==
    IF text = <<>> THEN 0
    ELSE glyph_width[Head(text)] + TextWidth(Tail(text))

\* s[:-n] for n > 0
DropLast(s, n) == IF Len(s) <= n THEN <<>> ELSE SubSeq(s, 1, Len(s) - n)

\* while len(destination) > 0: ... destination = destination[:-1]
RECURSIVE TruncateToWidth(_, _)
TruncateToWidth(destination, max_dest_width) ==
    IF Len(destination) > 0 /\ TextWidth(destination) > max_dest_width
    THEN TruncateToWidth(DropLast(destination, 1), max_dest_width)
    ELSE destination

\* (mutant) the ellipsis test with <= for <
EllipsizeAlways(destination, departure) ==
    IF Len(destination) <= Len(Get(departure, "destination", <<>>))
    THEN DropLast(destination, 3) \o Ellipsis
    ELSE destination

\* if len(destination) < len(departure.get('destination', '')): ... + '...'
Ellipsize(destination, departure) ==
    IF Len(destination) < Len(Get(departure, "destination", <<>>))
    THEN DropLast(destination, 3) \o Ellipsis
    ELSE destination

\* (mutant) "Due" one minute early
TimeLabelDueEarly(minutes) ==
    IF minutes <= 1 THEN "Due"
    ELSE ToString(minutes) \o " mins"

\* the time label of the two-panel layout
TimeLabel(minutes) ==
    IF minutes = 0 THEN "Due"
    ELSE IF minutes = 1 THEN ToString(minutes) \o " min"
    ELSE ToString(minutes) \o " mins"

\* What one call draws: the borders (top and bottom edge, the top border
\* unless it is the first row), the badge text, the destination and the time.
\* "truncated" records the destination as the loop left it.
RenderDepartureRow(departure, x, y, width, line_height, padding, is_first_row) ==
    LET max_dest_width == width - BadgeWidth - TimeAllowance - (2 * padding)
        truncated == TruncateToWidth(Get(departure, "destination", Unknown),
                                     max_dest_width)
    IN  [drawn       |-> TRUE,
         departure   |-> departure,
         top         |-> y,
         bottom      |-> y + line_height,
         top_border  |-> ~is_first_row,
         line_name   |-> Get(departure, "line_name", "Unknown"),
         truncated   |-> truncated,
         destination |-> Ellipsize(truncated, departure),
         time_str    |-> TimeLabel(Get(departure, "minutes_until", 0))]

DepartureOf(dest, minutes) ==
    ParseArrival(TimedArrival("District", dest, "outbound", 60 * minutes + 59))

Destinations == UNION {[1..n -> Alphabet] : n \in 0..MaxDestLen}

RowWidths ==
    (BadgeWidth + TimeAllowance + 2 * Padding - 1)
        .. (BadgeWidth + TimeAllowance + 2 * Padding + MaxDestWidth)

NoRow ==
    [drawn |-> FALSE, departure |-> DepartureOf(<<>>, 0), top |-> 0, bottom |-> 0,
     top_border |-> FALSE, line_name |-> "", truncated |-> <<>>,
     destination |-> <<>>, time_str |-> ""]

RowIdle ==
    /\ glyph_width = [c \in Alphabet |-> 1]
    /\ row_in = [departure |-> DepartureOf(<<>>, 0), width |-> 0]
    /\ row_out = NoRow

\* one row of a panel is drawn
RenderRow ==
    /\ row_out' = RenderDepartureRow(row_in.departure, 0, 0, row_in.width,
                                     33, Padding, TRUE)
    /\ UNCHANGED <<glyph_width, row_in>>
    /\ UNCHANGED varsDepartures
    /\ UNCHANGED varsPanel
    /\ UNCHANGED <<varsClock, varsFonts, varsRenderer, varsApp, varsMain>>

\* a refresh replaces the record by a new prediction for the same vehicle
RefreshRow ==
    /\ \E m \in 0..MaxMinutes :
         row_in' = [row_in EXCEPT
                      !.departure = DepartureOf(row_in.departure.destination, m)]
    /\ UNCHANGED <<glyph_width, row_out>>
    /\ UNCHANGED varsDepartures
    /\ UNCHANGED varsPanel
    /\ UNCHANGED <<varsClock, varsFonts, varsRenderer, varsApp, varsMain>>

DeparturesIdle ==
    /\ stop_ids = [s \in Sources |-> FALSE]
    /\ departures = [tube |-> <<>>, bus |-> <<>>]
    /\ fetched = [s \in Sources |-> <<>>]
    /\ queried = {}

(***************************************************************************)
(* lib/modules/tfl_departures.py: render, _render_panel                    *)
(***************************************************************************)
HeaderHeight == 50
PanelHeaderHeight == 30

\* int(a / b) for b > 0: true division, then truncation towards zero
IntDiv(a, b) == IF a >= 0 THEN a \div b ELSE -((-a) \div b)

\* (mutant) max where the code takes min
Larger(a, b) == IF a < b THEN b ELSE a

\* min(a, b)
Min(a, b) == IF a < b THEN a ELSE b

\* list[:n] for any integer n
SliceTo(s, n) ==
    IF n >= 0 THEN Take(s, n)
    ELSE IF Len(s) + n > 0 THEN SubSeq(s, 1, Len(s) + n) ELSE <<>>

\* the rows of the loop over enumerate(departures[:num_rows])
PanelRows(shown, x, top, width, line_height, padding) ==
    [idx \in 1..Len(shown) |->
        RenderDepartureRow(shown[idx], x, top + (idx - 1) * line_height, width,
                           line_height, padding, idx = 1)]

\* line_height: available_height // num_rows if num_rows > 0
LineHeight(available_height, num_rows, min_line_height) ==
    IF num_rows > 0 THEN available_height \div num_rows ELSE min_line_height

\* _render_panel: the title bar, then the placeholder or the rows
RenderPanel(mode, x, y, width, height, panel_header_height, padding) ==
    LET ds == Get(departures, mode, <<>>)
        available_height == height - panel_header_height
        min_line_height == departure_font_size + 20
        max_rows == IntDiv(available_height, min_line_height)
        num_rows == Min(max_rows, Len(ds))
        line_height == LineHeight(available_height, num_rows, min_line_height)
    IN  IF ds = <<>>
        THEN [rendered |-> TRUE, placeholder |-> TRUE, num_rows |-> 0,
              top |-> y + panel_header_height, bottom |-> y + height,
              rows |-> <<>>]
        ELSE [rendered |-> TRUE, placeholder |-> FALSE, num_rows |-> num_rows,
              top |-> y + panel_header_height, bottom |-> y + height,
              rows |-> PanelRows(SliceTo(ds, num_rows), x, y + panel_header_height,
                                 width, line_height, padding)]

NoPanel ==
    [rendered |-> FALSE, placeholder |-> FALSE, num_rows |-> 0, top |-> 0,
     bottom |-> 0, rows |-> <<>>]

\* TfLDeparturesModule.render: the header, then the two panels side by side
Render ==
    LET x == position[1]
        y == position[2]
        width == size[1]
        height == size[2]
        content_y == y + HeaderHeight
        content_height == height - HeaderHeight
        panel_width == width \div 2
    IN  /\ panels' = [tube |-> RenderPanel("tube", x, content_y, panel_width,
                                           content_height, PanelHeaderHeight, Padding),
                      bus  |-> RenderPanel("bus", x + panel_width, content_y,
                                           panel_width, content_height,
                                           PanelHeaderHeight, Padding)]
        /\ UNCHANGED varsModule
        /\ UNCHANGED varsDepartures
        /\ UNCHANGED varsRow
        /\ UNCHANGED <<varsClock, varsFonts, varsRenderer, varsApp, varsMain>>

\* a sorted per-mode list of n records, as update() leaves it
DepartureList(n) == [i \in 1..n |-> DepartureOf(<<"a">>, i + 1)]

FontSizes == {10, 13}

PanelIdle ==
    /\ position = <<0, 0>>
    /\ size = <<800, 480>>
    /\ departure_font_size = 13
    /\ panels = [tube |-> NoPanel, bus |-> NoPanel]

(***************************************************************************)
(* lib/display/renderer.py                                                 *)
(***************************************************************************)
WIDTH == 800
HEIGHT == 480
Background == 255

\* What is on a canvas: its size and the marks drawn in ink (every other
\* pixel is Background).  A mark names who drew it: a module, by its place
\* in the list, or a drawing primitive.
NoImage == [exists |-> FALSE, size |-> <<0, 0>>, black |-> {}]

\* (mutant) create_canvas keeping the canvas it already has
ReusedImage(w, h) ==
    IF image.exists THEN image ELSE [exists |-> TRUE, size |-> <<w, h>>, black |-> {}]

\* Image.new('1', (self.width, self.height), 255)
NewImage(w, h) == [exists |-> TRUE, size |-> <<w, h>>, black |-> {}]

\* (mutant) create_canvas that leaves self.draw unset
CreateCanvasNoDraw(w, h) == [image |-> NewImage(w, h), draw |-> draw]

\* create_canvas: self.image and self.draw after the call
CreateCanvasResult(w, h) == [image |-> NewImage(w, h), draw |-> "Draw"]

\* How one module.render call ends: it returns, or it raises before or after
\* it has drawn.
RenderOutcomes == {"ok", "raise_before", "raise_after"}

\* the mark the i-th module of the list draws
ModuleMark(i) == "module " \o ToString(i)

\* (mutant) a loop without the try/except: the first failure ends the pass
RECURSIVE RenderLoopNoCatch(_, _, _)
RenderLoopNoCatch(mods, outcomes, i) ==
    IF i > Len(mods) THEN [log |-> <<>>, raised |-> {}, inked |-> {}, returned |-> TRUE]
    ELSE IF ~mods[i].enabled THEN RenderLoopNoCatch(mods, outcomes, i + 1)
    ELSE IF outcomes[i] # "ok"
         THEN [log |-> <<i>>, raised |-> {i},
               inked |-> IF outcomes[i] = "raise_after" THEN {ModuleMark(i)} ELSE {},
               returned |-> FALSE]
    ELSE LET rest == RenderLoopNoCatch(mods, outcomes, i + 1)
         IN  [log |-> <<i>> \o rest.log, raised |-> rest.raised,
              inked |-> {ModuleMark(i)} \cup rest.inked, returned |-> rest.returned]

\* for module in modules: if module.is_enabled(): try: module.render(...)
\* from module i on: the render calls made, those that raised, the marks
\* drawn, and whether the loop ran to its end
RECURSIVE RenderLoop(_, _, _)
RenderLoop(mods, outcomes, i) ==
    IF i > Len(mods) THEN [log |-> <<>>, raised |-> {}, inked |-> {}, returned |-> TRUE]
    ELSE IF ~mods[i].enabled THEN RenderLoop(mods, outcomes, i + 1)
    ELSE LET rest == RenderLoop(mods, outcomes, i + 1)
         IN  [log      |-> <<i>> \o rest.log,
              raised   |-> (IF outcomes[i] = "ok" THEN {} ELSE {i}) \cup rest.raised,
              inked    |-> (IF outcomes[i] = "raise_before" THEN {} ELSE {ModuleMark(i)})
                             \cup rest.inked,
              returned |-> rest.returned]

Primitives == {"draw_text", "draw_line", "draw_rectangle"}

NoCall ==
    [op |-> "none", error |-> "none", log |-> <<>>, raised |-> {}, inked |-> {},
     returned |-> FALSE, called_before |-> FALSE,
     image_before |-> NoImage, draw_before |-> "None"]

Called(op) ==
    [NoCall EXCEPT !.op = op, !.called_before = canvas_called,
                   !.image_before = image, !.draw_before = draw]

\* Renderer.create_canvas
CreateCanvas ==
    LET made == CreateCanvasResult(r_width, r_height)
    IN  /\ image' = made.image
        /\ draw' = made.draw
        /\ canvas_called' = TRUE
        /\ r_last' = [Called("create_canvas") EXCEPT !.returned = TRUE]
        /\ UNCHANGED <<modules, r_width, r_height>>
        /\ UNCHANGED <<varsClock, varsFonts, varsDepartures, varsRow, varsPanel, varsApp, varsMain>>

\* ClockModule.render, TfLDeparturesModule.render: the BaseModule fields of
\* the module once the call has ended; neither method assigns one
ModuleRendered(m, outcome) == m

\* Renderer.render_modules, with the way each module.render call ends
RenderModulesCall(outcomes) ==
    LET made == CreateCanvasResult(r_width, r_height)
        pass == RenderLoop(modules, outcomes, 1)
    IN  /\ image' = [made.image EXCEPT !.black = @ \cup pass.inked]
        /\ draw' = made.draw
        /\ canvas_called' = TRUE
        /\ r_last' = [Called("render_modules") EXCEPT
                         !.log = pass.log, !.raised = pass.raised,
                         !.inked = pass.inked, !.returned = pass.returned]
        /\ modules' = [i \in 1..Len(modules) |->
                          IF modules[i].enabled
                          THEN ModuleRendered(modules[i], outcomes[i])
                          ELSE modules[i]]
        /\ UNCHANGED <<r_width, r_height>>

RenderModules ==
    \E outcomes \in [1..Len(modules) -> RenderOutcomes] :
        /\ RenderModulesCall(outcomes)
        /\ UNCHANGED <<varsClock, varsFonts, varsDepartures, varsRow, varsPanel, varsApp, varsMain>>

\* draw_text, draw_line, draw_rectangle: raise if self.draw is None, else draw
Primitive(op) ==
    /\ IF draw = "None"
       THEN /\ r_last' = [Called(op) EXCEPT !.error = "CanvasNotReady"]
            /\ UNCHANGED image
       ELSE /\ r_last' = [Called(op) EXCEPT !.returned = TRUE]
            /\ image' = [image EXCEPT !.black = @ \cup {op}]
    /\ UNCHANGED <<modules, r_width, r_height, draw, canvas_called>>
    /\ UNCHANGED <<varsClock, varsFonts, varsDepartures, varsRow, varsPanel, varsApp, varsMain>>

DrawText == Primitive("draw_text")
DrawLine == Primitive("draw_line")
DrawRectangle == Primitive("draw_rectangle")

ModuleLists == UNION {[1..n -> [enabled : BOOLEAN]] : n \in 0..MaxModules}

CanvasSizes == {<<WIDTH, HEIGHT>>, <<HEIGHT, WIDTH>>}

RendererIdle ==
    /\ modules = <<>>
    /\ r_width = WIDTH
    /\ r_height = HEIGHT
    /\ image = NoImage
    /\ draw = "None"
    /\ canvas_called = FALSE
    /\ r_last = NoCall

(***************************************************************************)
(* main.py                                                                 *)
(***************************************************************************)
\* {**a, **b}
Merge(a, b) ==
    [k \in DOMAIN a \cup DOMAIN b |-> IF k \in DOMAIN b THEN b[k] ELSE a[k]]

\* a config section with or without an 'enabled' key
EnabledSettings == {<<>>, [enabled |-> TRUE], [enabled |-> FALSE]}

\* a config section that places and sizes its module or leaves both to the
\* defaults, with or without an 'enabled' key
ModuleSettings ==
    {Merge(g, e) : g \in {<<>>, [position |-> <<10, 60>>, size |-> <<800, 50>>]},
                   e \in EnabledSettings}

\* BaseModule.__init__: self.position, self.size, self.enabled, self.name
Module(name, module_config) ==
    [name     |-> name,
     position |-> Get(module_config, "position", <<0, 0>>),
     size     |-> Get(module_config, "size", <<100, 100>>),
     enabled  |-> Get(module_config, "enabled", TRUE)]

\* BaseModule.get_bounds
GetBounds(m) ==
    LET x == m.position[1]
        y == m.position[2]
        width == m.size[1]
        height == m.size[2]
    IN  <<x, y, x + width, y + height>>

\* BaseModule.is_enabled
IsEnabled(m) == m.enabled

\* (mutant) an update() that switches its module off when it fails
ModuleUpdatedDisabling(m, outcome) ==
    IF outcome = "raise" THEN [m EXCEPT !.enabled = FALSE] ELSE m

\* ClockModule.update, TfLDeparturesModule.update: the BaseModule fields of
\* the module once the call has ended; neither method assigns one
ModuleUpdated(m, outcome) == m

\* _setup_modules: self.modules
SetupModules(cfg) ==
    (IF Get(cfg.clock, "enabled", TRUE)
     THEN <<Module("ClockModule", cfg.clock)>> ELSE <<>>)
    \o
    (IF Get(cfg.modules_departures, "enabled", TRUE)
     THEN <<Module("TfLDeparturesModule",
                   Merge(cfg.departures, cfg.modules_departures))>>
     ELSE <<>>)

NoConfig == [clock |-> <<>>, modules_departures |-> <<>>, departures |-> <<>>]

NoSink == [displayed |-> NoImage, shown |-> FALSE, asleep |-> FALSE, closed |-> FALSE]

Event(ev, i) == [ev |-> ev, module |-> i]

\* (mutant) update_modules without the try/except: a raising update() ends run()
AfterUpdateNoCatch(outcome, i) ==
    IF outcome = "raise" THEN "cleanup"
    ELSE IF i < Len(modules) THEN "update" ELSE "render"

\* update_modules: where run() goes after module i's update() ended
AfterUpdate(outcome, i) == IF i < Len(modules) THEN "update" ELSE "render"

\* run(): self.running = True
RunStart ==
    /\ pc = "run"
    /\ running' = TRUE
    /\ pc' = "loop"
    /\ UNCHANGED <<config, cursor, tick_log, epd, signal_at, received>>
    /\ UNCHANGED <<varsClock, varsFonts, varsDepartures, varsRow, varsPanel, varsRenderer, varsMain>>

\* (mutant) while True
WhileTrue(flag) == TRUE

\* while self.running
WhileRunning(flag) == flag

\* the head of the loop: a tick starts, or the loop ends
LoopCheck ==
    /\ pc = "loop"
    /\ IF WhileRunning(running)
       THEN /\ pc' = IF Len(modules) > 0 THEN "update" ELSE "render"
            /\ cursor' = 1
            /\ tick_log' = <<>>
       ELSE /\ pc' = "cleanup"
            /\ UNCHANGED <<cursor, tick_log>>
    /\ UNCHANGED <<config, running, epd, signal_at, received>>
    /\ UNCHANGED <<varsClock, varsFonts, varsDepartures, varsRow, varsPanel, varsRenderer, varsMain>>

\* update_modules: module.update() on the next module, caught if it raises
UpdateModule ==
    /\ pc = "update"
    /\ \E outcome \in {"ok", "raise"} :
         /\ tick_log' = Append(tick_log,
                Event(IF outcome = "ok" THEN "update" ELSE "update_failed", cursor))
         /\ pc' = AfterUpdate(outcome, cursor)
         /\ modules' = [modules EXCEPT ![cursor] = ModuleUpdated(@, outcome)]
    /\ cursor' = cursor + 1
    /\ UNCHANGED <<r_width, r_height, image, draw, canvas_called, r_last>>
    /\ UNCHANGED <<config, running, epd, signal_at, received>>
    /\ UNCHANGED <<varsClock, varsFonts, varsDepartures, varsRow, varsPanel, varsMain>>

\* render_display: image = self.renderer.render_modules(self.modules)
RenderStep ==
    /\ pc = "render"
    /\ \E outcomes \in [1..Len(modules) -> RenderOutcomes] :
         RenderModulesCall(outcomes)
    /\ tick_log' = Append(tick_log, Event("render_modules", 0))
    /\ pc' = IF r_last'.returned THEN "display" ELSE "sleep"
    /\ UNCHANGED <<config, running, cursor, epd, signal_at, received>>
    /\ UNCHANGED <<varsClock, varsFonts, varsDepartures, varsRow, varsPanel, varsMain>>

\* (mutant) render_display without the try/except: the error leaves the loop
RenderDisplayNoCatch(outcome) == IF outcome = "raise" THEN "cleanup" ELSE "sleep"

\* render_display: where run() goes once the try body has ended, by a return
\* or by an exception that except Exception caught
RenderDisplay(outcome) == "sleep"

\* render_display: self.epd.display(image), caught if it raises
DisplayStep ==
    /\ pc = "display"
    /\ \E outcome \in {"ok", "raise"} :
         /\ epd' = [epd EXCEPT !.displayed = image, !.shown = (outcome = "ok")]
         /\ tick_log' = Append(tick_log,
                Event(IF outcome = "ok" THEN "display" ELSE "display_failed", 0))
         /\ pc' = RenderDisplay(outcome)
    /\ UNCHANGED <<config, running, cursor, signal_at, received>>
    /\ UNCHANGED <<varsClock, varsFonts, varsDepartures, varsRow, varsPanel, varsRenderer, varsMain>>

\* render_display: render_modules raises out of create_canvas (Image.new
\* cannot allocate the canvas) before any module is rendered; caught, and
\* epd.display is skipped
RenderRaises ==
    /\ pc = "render"
    /\ r_last' = [Called("render_modules") EXCEPT !.error = "MemoryError"]
    /\ canvas_called' = TRUE
    /\ tick_log' = Append(tick_log, Event("render_modules_failed", 0))
    /\ pc' = RenderDisplay("raise")
    /\ UNCHANGED <<modules, r_width, r_height, image, draw>>
    /\ UNCHANGED <<config, running, cursor, epd, signal_at, received>>
    /\ UNCHANGED <<varsClock, varsFonts, varsDepartures, varsRow, varsPanel, varsMain>>

\* time.sleep(refresh_interval)
SleepStep ==
    /\ pc = "sleep"
    /\ tick_log' = Append(tick_log, Event("sleep", 0))
    /\ pc' = "loop"
    /\ UNCHANGED <<config, running, cursor, epd, signal_at, received>>
    /\ UNCHANGED <<varsClock, varsFonts, varsDepartures, varsRow, varsPanel, varsRenderer, varsMain>>

\* handle_signal: SIGINT or SIGTERM, at any point once main() has installed
\* the handlers, that is from before setup() until the process ends
HandleSignal ==
    /\ pc \in {"setup", "init_display", "setup_modules",
               "run", "loop", "update", "render", "display", "sleep"}
    /\ running' = FALSE
    /\ signal_at' = IF running /\ signal_at = "none" THEN pc ELSE signal_at
    /\ received' = TRUE
    /\ UNCHANGED <<config, pc, cursor, tick_log, epd>>
    /\ UNCHANGED <<varsClock, varsFonts, varsDepartures, varsRow, varsPanel, varsRenderer, varsMain>>

\* cleanup: self.running = False, epd.sleep(), epd.close()
Cleanup ==
    /\ pc = "cleanup"
    /\ running' = FALSE
    /\ epd' = [epd EXCEPT !.asleep = TRUE, !.closed = TRUE]
    /\ pc' = "done"
    /\ UNCHANGED <<config, cursor, tick_log, signal_at, received>>
    /\ UNCHANGED <<varsClock, varsFonts, varsDepartures, varsRow, varsPanel, varsRenderer, varsMain>>

\* the startup as it is once setup() has returned
MainIdle ==
    /\ boot = [config_file |-> "valid", mock_mode |-> TRUE, driver |-> "installed",
               display |-> "mock"]
    /\ exit_status = "none"

AppIdle ==
    /\ config = NoConfig
    /\ pc = "idle"
    /\ running = FALSE
    /\ cursor = 1
    /\ tick_log = <<>>
    /\ epd = NoSink
    /\ signal_at = "none"
    /\ received = FALSE

\* the application once setup() has returned
InitApp ==
    /\ config \in [clock : EnabledSettings, modules_departures : EnabledSettings,
                    departures : EnabledSettings]
    /\ modules = SetupModules(config)
    /\ r_width = WIDTH
    /\ r_height = HEIGHT
    /\ image = NoImage
    /\ draw = "None"
    /\ canvas_called = FALSE
    /\ r_last = NoCall
    /\ pc = "run"
    /\ running = FALSE
    /\ cursor = 1
    /\ tick_log = <<>>
    /\ epd = NoSink
    /\ signal_at = "none"
    /\ received = FALSE
    /\ MainIdle
    /\ DeparturesIdle
    /\ RowIdle
    /\ FontsIdle
    /\ ClockIdle
    /\ PanelIdle

SpecApp ==
    InitApp
    /\ [][RunStart \/ LoopCheck \/ UpdateModule \/ RenderStep \/ DisplayStep
           \/ SleepStep \/ HandleSignal \/ Cleanup]_vars

\* the application once setup() has returned, for module sections that
\* place and size their module or leave that to the defaults
InitFrame ==
    /\ config \in [clock : ModuleSettings, modules_departures : ModuleSettings,
                    departures : EnabledSettings]
    /\ modules = SetupModules(config)
    /\ r_width = WIDTH
    /\ r_height = HEIGHT
    /\ image = NoImage
    /\ draw = "None"
    /\ canvas_called = FALSE
    /\ r_last = NoCall
    /\ pc = "run"
    /\ running = FALSE
    /\ cursor = 1
    /\ tick_log = <<>>
    /\ epd = NoSink
    /\ signal_at = "none"
    /\ received = FALSE
    /\ MainIdle
    /\ DeparturesIdle
    /\ RowIdle
    /\ FontsIdle
    /\ ClockIdle
    /\ PanelIdle

SpecFrame ==
    InitFrame
    /\ [][RunStart \/ LoopCheck \/ UpdateModule \/ RenderStep \/ DisplayStep
           \/ SleepStep \/ HandleSignal \/ Cleanup]_vars

\* the application on a system where allocating the canvas can fail
SpecAppFaults ==
    InitApp
    /\ [][RunStart \/ LoopCheck \/ UpdateModule \/ RenderStep \/ RenderRaises
           \/ DisplayStep \/ SleepStep \/ HandleSignal \/ Cleanup]_vars

(***************************************************************************)
(* main.py: main() and setup()                                             *)
(***************************************************************************)
\* config.json: absent, not JSON, lacking a required field, or complete
ConfigFiles == {"missing", "invalid_json", "incomplete", "valid"}

\* the Waveshare driver: importable, not installed (ImportError), or
\* failing when the EPD object is made
Drivers == {"installed", "missing", "broken"}

\* (mutant) load() without the call of _validate()
ConfigLoadUnvalidated(config_file) ==
    IF config_file \in {"valid", "incomplete"} THEN "ok" ELSE "raise"

\* ConfigManager.load: FileNotFoundError, JSONDecodeError, ValueError from
\* _validate, or the configuration
ConfigLoad(config_file) == IF config_file = "valid" THEN "ok" ELSE "raise"

\* EPDDriver.__init__: self.mock_mode, or "raise" for an error that is not
\* an ImportError
EPDDriverNew(mock_mode, driver) ==
    IF mock_mode THEN "mock"
    ELSE IF driver = "missing" THEN "mock"
    ELSE IF driver = "broken" THEN "raise"
    ELSE "hardware"

\* sys.exit(1), from setup() or from main()'s except Exception
Exit1 ==
    /\ pc' = "exited"
    /\ exit_status' = "1"

\* setup(): self.config_manager.load(), or sys.exit(1)
LoadConfig ==
    /\ pc = "setup"
    /\ IF ConfigLoad(boot.config_file) = "raise"
       THEN Exit1
       ELSE pc' = "init_display" /\ UNCHANGED exit_status
    /\ UNCHANGED <<config, running, cursor, tick_log, epd, signal_at, received, boot>>
    /\ UNCHANGED <<varsClock, varsFonts, varsDepartures, varsRow, varsPanel, varsRenderer>>

\* setup(): EPDDriver(mock_mode), self.epd.init(), or sys.exit(1)
InitDisplay ==
    /\ pc = "init_display"
    /\ LET made == EPDDriverNew(boot.mock_mode, boot.driver)
       IN  \/ /\ made = "raise"
              /\ boot' = [boot EXCEPT !.display = "failed"]
              /\ Exit1
           \/ /\ made = "mock"
              /\ boot' = [boot EXCEPT !.display = "mock"]
              /\ pc' = "setup_modules"
              /\ UNCHANGED exit_status
           \/ /\ made = "hardware"
              /\ \E outcome \in {"ok", "raise"} :
                    IF outcome = "raise"
                    THEN boot' = [boot EXCEPT !.display = "failed"] /\ Exit1
                    ELSE /\ boot' = [boot EXCEPT !.display = "ok"]
                         /\ pc' = "setup_modules"
                         /\ UNCHANGED exit_status
    /\ UNCHANGED <<config, running, cursor, tick_log, epd, signal_at, received>>
    /\ UNCHANGED <<varsClock, varsFonts, varsDepartures, varsRow, varsPanel, varsRenderer>>

\* setup(): Renderer(width, height), TfLClient(...), _setup_modules()
SetupComponents ==
    /\ pc = "setup_modules"
    /\ modules' = SetupModules(config)
    /\ r_width' = WIDTH
    /\ r_height' = HEIGHT
    /\ pc' = "run"
    /\ UNCHANGED <<image, draw, canvas_called, r_last>>
    /\ UNCHANGED <<config, running, cursor, tick_log, epd, signal_at, received>>
    /\ UNCHANGED <<varsClock, varsFonts, varsDepartures, varsRow, varsPanel, varsMain>>

\* main(): a TfLPiApp has been made, setup() is about to be called
InitMain ==
    /\ config \in [clock : EnabledSettings, modules_departures : {<<>>},
                    departures : {<<>>}]
    /\ boot \in [config_file : ConfigFiles, mock_mode : BOOLEAN, driver : Drivers,
                  display : {"untried"}]
    /\ exit_status = "none"
    /\ pc = "setup"
    /\ running = FALSE
    /\ cursor = 1
    /\ tick_log = <<>>
    /\ epd = NoSink
    /\ signal_at = "none"
    /\ received = FALSE
    /\ RendererIdle
    /\ DeparturesIdle
    /\ RowIdle
    /\ FontsIdle
    /\ ClockIdle
    /\ PanelIdle

SpecMain ==
    InitMain
    /\ [][LoadConfig \/ InitDisplay \/ SetupComponents
           \/ RunStart \/ LoopCheck \/ UpdateModule \/ RenderStep \/ DisplayStep
           \/ SleepStep \/ HandleSignal \/ Cleanup]_vars

\* a module asks for its regular font
RequestDefaultFont ==
    /\ \E points \in 1..MaxFontSize :
         font_last' = [op |-> "get_default_font", size |-> points,
                       font |-> GetDefaultFont(points)]
    /\ UNCHANGED font_files
    /\ UNCHANGED <<varsClock, varsDepartures, varsRow, varsPanel, varsRenderer, varsApp, varsMain>>

\* a module asks for its bold font
RequestBoldFont ==
    /\ \E points \in 1..MaxFontSize :
         font_last' = [op |-> "get_bold_font", size |-> points,
                       font |-> GetBoldFont(points)]
    /\ UNCHANGED font_files
    /\ UNCHANGED <<varsClock, varsDepartures, varsRow, varsPanel, varsRenderer, varsApp, varsMain>>

\* any of the four font files may be installed or not
InitFonts ==
    /\ font_files \in [FontFiles -> BOOLEAN]
    /\ font_last = NoFontRequest
    /\ ClockIdle
    /\ DeparturesIdle
    /\ RowIdle
    /\ PanelIdle
    /\ RendererIdle
    /\ AppIdle
    /\ MainIdle

SpecFonts == InitFonts /\ [][RequestDefaultFont \/ RequestBoldFont]_vars

(***************************************************************************)
(* The two modules, updated and rendered in any order.                     *)
(***************************************************************************)
\* ClockModule.update
ClockUpdate ==
    /\ \E time \in Times, date \in Dates : clock' = ClockUpdated(clock, time, date)
    /\ UNCHANGED clock_out
    /\ UNCHANGED <<varsFonts, varsDepartures, varsRow, varsPanel, varsRenderer,
                   varsApp, varsMain>>

\* ClockModule.render
ClockRender ==
    /\ \E time \in Times, date \in Dates :
         LET refreshed == IF clock.current_time = None
                          THEN ClockUpdated(clock, time, date) ELSE clock
         IN  /\ clock' = refreshed
             /\ clock_out' = [rendered |-> TRUE, raised |-> FALSE,
                              drawn |-> ClockDrawn(refreshed)]
    /\ UNCHANGED <<varsFonts, varsDepartures, varsRow, varsPanel, varsRenderer,
                   varsApp, varsMain>>

\* the responses of a cycle in which every request fails
AllFailed ==
    [s \in Sources |->
        IF stop_ids[s] THEN [status |-> "error", body |-> <<>>] ELSE NotQueried]

\* the responses of a cycle in which every request gets the same arrival
AllGot(a) ==
    [s \in Sources |->
        IF stop_ids[s] THEN [status |-> "ok", body |-> <<a>>] ELSE NotQueried]

\* arrivals whose destination the row font of the model can measure
CycleArrivals ==
    {TimedArrival("District", <<"a">>, d, 60 * m) :
        d \in {"outbound", "inbound"}, m \in 1..MaxMinutes}

\* TfLDeparturesModule.update in a cycle that fails, and in one that does not
UpdateCycle ==
    /\ \E responses \in {AllFailed} \cup {AllGot(a) : a \in CycleArrivals} :
         UpdateWith(responses)
    /\ UNCHANGED varsRow
    /\ UNCHANGED varsPanel
    /\ UNCHANGED <<varsClock, varsFonts, varsRenderer, varsApp, varsMain>>

\* both modules as constructed: any formats for the clock, any stops
InitModules ==
    /\ clock \in {NewClock(t, d) : t \in BOOLEAN, d \in BOOLEAN}
    /\ clock_out = NoClockRender
    /\ stop_ids \in {[s \in Sources |-> b] : b \in BOOLEAN}
                   \cup {[s \in Sources |-> ModeOfSource(s) = m] : m \in Modes}
    /\ departures = [tube |-> <<>>, bus |-> <<>>]
    /\ fetched = [s \in Sources |-> <<>>]
    /\ queried = {}
    /\ FontsIdle
    /\ RowIdle
    /\ PanelIdle
    /\ RendererIdle
    /\ AppIdle
    /\ MainIdle

SpecModules ==
    InitModules /\ [][ClockUpdate \/ ClockRender \/ UpdateCycle \/ Render]_vars

\* run() is scheduled until it returns; signals come when they come
TickStep ==
    RunStart \/ LoopCheck \/ UpdateModule \/ RenderStep \/ DisplayStep
        \/ SleepStep \/ Cleanup

SpecAppFair ==
    InitApp
    /\ [][RunStart \/ LoopCheck \/ UpdateModule \/ RenderStep \/ DisplayStep
           \/ SleepStep \/ HandleSignal \/ Cleanup]_vars
    /\ WF_vars(TickStep)

\* Renderer.__init__
InitRenderer ==
    /\ modules \in ModuleLists
    /\ r_width \in {cs[1] : cs \in CanvasSizes}
    /\ r_height \in {cs[2] : cs \in CanvasSizes}
    /\ <<r_width, r_height>> \in CanvasSizes
    /\ image = NoImage
    /\ draw = "None"
    /\ canvas_called = FALSE
    /\ r_last = NoCall
    /\ DeparturesIdle
    /\ RowIdle
    /\ FontsIdle
    /\ ClockIdle
    /\ PanelIdle
    /\ AppIdle
    /\ MainIdle

SpecRenderer ==
    InitRenderer
    /\ [][CreateCanvas \/ RenderModules \/ DrawText \/ DrawLine \/ DrawRectangle]_vars

InitPanel ==
    /\ position = <<0, 0>>
    /\ size \in {<<800, h>> : h \in 0..MaxModuleHeight}
    /\ departure_font_size \in FontSizes
    /\ panels = [tube |-> NoPanel, bus |-> NoPanel]
    /\ stop_ids = [s \in Sources |-> TRUE]
    /\ departures \in [tube : {DepartureList(n) : n \in 0..MaxDepartures},
                        bus  : {DepartureList(n) : n \in 0..MaxDepartures}]
    /\ fetched = [s \in Sources |-> <<>>]
    /\ queried = {}
    /\ RowIdle
    /\ FontsIdle
    /\ ClockIdle
    /\ RendererIdle
    /\ AppIdle
    /\ MainIdle

SpecPanel == InitPanel /\ [][Render]_vars

InitRow ==
    /\ glyph_width \in [Alphabet -> 1..MaxGlyphWidth]
    /\ row_in \in [departure : {DepartureOf(d, m) :
                                   d \in Destinations, m \in 0..MaxMinutes},
                    width : RowWidths]
    /\ row_out = NoRow
    /\ FontsIdle
    /\ ClockIdle
    /\ DeparturesIdle
    /\ PanelIdle
    /\ RendererIdle
    /\ AppIdle
    /\ MainIdle

SpecRow == InitRow /\ [][RenderRow \/ RefreshRow]_vars

InitUpdate ==
    /\ InitDepartures
    /\ RowIdle
    /\ FontsIdle
    /\ ClockIdle
    /\ PanelIdle
    /\ RendererIdle
    /\ AppIdle
    /\ MainIdle

SpecUpdate == InitUpdate /\ [][Update]_vars

(***************************************************************************)
(* Claims about update().                                                  *)
(***************************************************************************)
Minutes(ds) == {ds[i].minutes_until : i \in 1..Len(ds)}
WithMinutes(ds, m) == SelectSeq(ds, LAMBDA d : d.minutes_until = m)
Ascending(ds) ==
    \A i, j \in 1..Len(ds) : i < j => ds[i].minutes_until <= ds[j].minutes_until
Contains(ds, d) == \E i \in 1..Len(ds) : ds[i] = d

\* what the two sources of a mode returned, westbound first
FetchedTube == fetched["westbound_tube"] \o fetched["eastbound_tube"]
FetchedBus  == fetched["westbound_bus"] \o fetched["eastbound_bus"]

\* C1: after any sequence of update() calls both per-mode lists are sorted
\* ascending by minutes_until, and the records of one minutes_until value
\* appear in the order they had in the concatenation of the westbound and
\* the eastbound source.
C1_SortedStable ==
    /\ Ascending(departures.tube)
    /\ Ascending(departures.bus)
    /\ \A m \in Minutes(departures.tube) :
          WithMinutes(departures.tube, m) = WithMinutes(FetchedTube, m)
    /\ \A m \in Minutes(departures.bus) :
          WithMinutes(departures.bus, m) = WithMinutes(FetchedBus, m)

\* a westbound and an eastbound tube record tie on minutes_until
C1_Witness ==
    /\ Len(fetched["westbound_tube"]) = 1
    /\ Len(fetched["eastbound_tube"]) = 1
    /\ fetched["westbound_tube"][1].minutes_until
          = fetched["eastbound_tube"][1].minutes_until
    /\ fetched["westbound_tube"][1] # fetched["eastbound_tube"][1]
    /\ departures.tube = FetchedTube

\* C2: after every update() the bus list holds no record under 2 minutes and
\* every fetched bus record of 2 minutes or more, and the tube list holds
\* every fetched tube record whatever its minutes_until.
C2_BusFilterOnly ==
    /\ \A i \in 1..Len(departures.bus) : departures.bus[i].minutes_until >= 2
    /\ \A i \in 1..Len(FetchedBus) :
          FetchedBus[i].minutes_until >= 2 => Contains(departures.bus, FetchedBus[i])
    /\ \A i \in 1..Len(FetchedTube) : Contains(departures.tube, FetchedTube[i])

\* a bus at 1 minute and a bus at 2 minutes were fetched; only the latter is kept
C2_Witness ==
    /\ \E i \in 1..Len(FetchedBus) : FetchedBus[i].minutes_until = 1
    /\ \E i \in 1..Len(FetchedBus) : FetchedBus[i].minutes_until = 2
    /\ Len(departures.bus) = 1

(***************************************************************************)
(* Claims about _render_departure_row.                                     *)
(***************************************************************************)
RowMaxDestWidth == row_in.width - BadgeWidth - TimeAllowance - (2 * Padding)
RowOriginal == row_out.departure.destination
RowRemoved == Len(RowOriginal) - Len(row_out.truncated)
EndsWithEllipsis(text) ==
    Len(text) >= 3 /\ SubSeq(text, Len(text) - 2, Len(text)) = Ellipsis
IsPrefix(p, text) == Len(p) <= Len(text) /\ SubSeq(text, 1, Len(p)) = p

\* C4: the destination finally drawn is never wider than max_dest_width, and
\* is empty when max_dest_width <= 0 (an empty string, of width 0, is what
\* fits a negative width).
C4_DrawnFitsWidth ==
    row_out.drawn =>
        /\ RowMaxDestWidth > 0 => TextWidth(row_out.destination) <= RowMaxDestWidth
        /\ RowMaxDestWidth <= 0 => row_out.destination = <<>>

\* C5 as stated: the drawn destination ends with "..." if and only if the
\* loop removed a character; unchanged when none was removed, and a prefix of
\* the original before the ellipsis when some were.
C5_EllipsisIffRemoved ==
    row_out.drawn =>
        /\ EndsWithEllipsis(row_out.destination) <=> RowRemoved > 0
        /\ RowRemoved = 0 => row_out.destination = RowOriginal
        /\ RowRemoved > 0 => IsPrefix(DropLast(row_out.destination, 3), RowOriginal)

\* C5 as amended: if the loop removed a character the drawn destination ends
\* with "..." and what precedes the ellipsis is a prefix of the original; if
\* it removed none the destination is drawn unchanged (and so ends with "..."
\* only if the original does).
C5_EllipsisWhenRemoved ==
    row_out.drawn =>
        /\ RowRemoved > 0 =>
              /\ EndsWithEllipsis(row_out.destination)
              /\ IsPrefix(DropLast(row_out.destination, 3), RowOriginal)
        /\ RowRemoved = 0 => row_out.destination = RowOriginal

\* a truncated destination that keeps some of its own text before the ellipsis
C5_Witness ==
    /\ row_out.drawn
    /\ RowRemoved > 0
    /\ Len(row_out.destination) > 3
    /\ row_out.destination[1] = "a"

\* C6: the time label of a drawn row is "Due" exactly when the minutes_until
\* of the record it was drawn from is 0, "1 min" exactly when it is 1, and
\* "n mins" for every other n >= 0.
C6_TimeLabel ==
    row_out.drawn =>
        LET n == row_out.departure.minutes_until
        IN  /\ row_out.time_str = "Due" <=> n = 0
            /\ row_out.time_str = "1 min" <=> n = 1
            /\ n > 1 => row_out.time_str = ToString(n) \o " mins"

\* a row drawn "1 min" whose record a later refresh has brought to 0: the
\* label on screen is still the one of the cycle that drew it
C6_Witness ==
    /\ row_out.drawn
    /\ row_out.time_str = "1 min"
    /\ row_in.departure.minutes_until = 0

(***************************************************************************)
(* Claims about _render_panel.                                             *)
(***************************************************************************)
RECURSIVE SumRowHeights(_)
SumRowHeights(rows) ==
    IF rows = <<>> THEN 0
    ELSE (Head(rows).bottom - Head(rows).top) + SumRowHeights(Tail(rows))

\* C3: whenever the computed row count is > 0 the rows drawn tile the
\* available height exactly: their heights sum to H and the bottom edge of
\* the last row is the bottom edge of the panel.
C3_ExactFill ==
    \A mode \in Modes :
        LET p == panels[mode]
        IN  (p.rendered /\ p.num_rows > 0) =>
              /\ SumRowHeights(p.rows) = p.bottom - p.top
              /\ p.rows[Len(p.rows)].bottom = p.bottom

(***************************************************************************)
(* Claims about the renderer.                                              *)
(***************************************************************************)
EnabledIndices ==
    SelectSeq([i \in 1..Len(modules) |-> i], LAMBDA i : modules[i].enabled)

\* C7: in one render_modules pass render is attempted exactly once, in list
\* order, on every enabled module and on no disabled one; a render that
\* raises stops nothing, and the canvas is returned after all modules have
\* been attempted, even if every render failed.
C7_EveryEnabledModuleRendered ==
    r_last.op = "render_modules" =>
        /\ r_last.log = EnabledIndices
        /\ r_last.returned
        /\ r_last.error = "none"

\* a pass in which a module's render raised and a later module was rendered
C7_Witness ==
    /\ r_last.op = "render_modules"
    /\ \E i \in r_last.raised :
         \E k \in 1..Len(r_last.log) : r_last.log[k] > i
    /\ r_last.returned

\* C8: when a render_modules pass returns, the canvas has the renderer's
\* configured width x height and carries exactly the ink of this pass (none
\* with no enabled module): nothing drawn before the pass is left on it; and
\* a canvas never has other dimensions than the configured ones.
C8_FreshCanvasEveryPass ==
    /\ image.exists => image.size = <<r_width, r_height>>
    /\ r_last.op = "render_modules" =>
          /\ image.exists
          /\ image.black = r_last.inked
          /\ EnabledIndices = <<>> => image.black = {}

\* a pass that started with ink on the previous canvas and ended without it
C8_Witness ==
    /\ r_last.op = "render_modules"
    /\ r_last.image_before.exists
    /\ r_last.image_before.black # {}
    /\ r_last.image_before.black \cap image.black = {}

\* C9: a drawing primitive fails with the canvas-not-ready error exactly when
\* neither create_canvas nor render_modules was called before it; a failing
\* call leaves self.image and self.draw as they were.
C9_NotReadyOnlyBeforeCanvas ==
    r_last.op \in Primitives =>
        /\ r_last.error = "CanvasNotReady" <=> ~r_last.called_before
        /\ r_last.error = "CanvasNotReady" =>
              /\ image = r_last.image_before
              /\ draw = r_last.draw_before
        /\ r_last.error = "none" => r_last.returned

\* a primitive called on a renderer that has no canvas yet
C9_Witness ==
    /\ r_last.op \in Primitives
    /\ r_last.error = "CanvasNotReady"
    /\ ~canvas_called


(***************************************************************************)
(* C10: on every tick of TfLPiApp.run, update() is invoked on each module  *)
(* in list order, then render_modules is called once, then the resulting   *)
(* canvas is handed to the display sink, then the loop sleeps; an          *)
(* exception raised by a module's update() is caught and prevents neither  *)
(* the update of a later module nor the compose and display steps of the   *)
(* same tick.  Stated on the record of the tick: position j <= n holds the *)
(* update of module j (failed or not), n+1 the render_modules call, n+2    *)
(* the hand-over of the renderer's canvas to the sink, n+3 the sleep, and  *)
(* the loop is only ever left or re-entered with a whole tick on record.   *)
(***************************************************************************)
TickLength == Len(modules) + 3

TickEventInOrder(j) ==
    LET e == tick_log[j]
        n == Len(modules)
    IN  IF j <= n THEN e.ev \in {"update", "update_failed"} /\ e.module = j
        ELSE IF j = n + 1 THEN e.ev = "render_modules"
        ELSE IF j = n + 2 THEN e.ev \in {"display", "display_failed"}
        ELSE e.ev = "sleep"

C10_TickOrder ==
    pc # "idle" =>
        /\ Len(tick_log) <= TickLength
        /\ \A j \in 1..Len(tick_log) : TickEventInOrder(j)
        /\ pc \in {"run", "loop", "cleanup", "done"} => Len(tick_log) \in {0, TickLength}
        /\ pc = "update" => Len(tick_log) = cursor - 1 /\ cursor <= Len(modules)
        /\ pc = "render" => Len(tick_log) = Len(modules)
        /\ pc = "display" => Len(tick_log) = Len(modules) + 1
        /\ pc = "sleep" =>
              /\ Len(tick_log) = Len(modules) + 2
              /\ r_last.op = "render_modules"
              /\ r_last.returned
              /\ epd.displayed = image

\* C10 witness: a whole tick over two modules in which the first update raised
C10_Witness ==
    /\ pc = "loop"
    /\ Len(modules) = 2
    /\ Len(tick_log) = TickLength
    /\ tick_log[1] = Event("update_failed", 1)
    /\ tick_log[2] = Event("update", 2)
    /\ tick_log[3].ev = "render_modules"
    /\ tick_log[4].ev = "display"
    /\ tick_log[5].ev = "sleep"
    /\ epd.shown

(***************************************************************************)
(* C11: when a shutdown signal (handle_signal) arrives while the main loop *)
(* is running, the tick in progress is not cancelled: each of its          *)
(* remaining update, compose, display and sleep steps is the next thing    *)
(* run() does; no tick is started once the running flag has been consulted *)
(* (the head of the loop goes to cleanup); and the loop then terminates    *)
(* with the display put to sleep and closed.                               *)
(***************************************************************************)
LoopSteps == {"loop", "update", "render", "display", "sleep"}

Signalled == pc \in LoopSteps /\ ~running

C11_StepAfterSignal ==
    /\ ~running'
    /\ pc = "update" =>
          /\ pc' = IF cursor < Len(modules) THEN "update" ELSE "render"
          /\ Len(tick_log') = Len(tick_log) + 1
          /\ tick_log'[Len(tick_log')].module = cursor
    /\ pc = "render" =>
          /\ pc' = "display"
          /\ tick_log' = Append(tick_log, Event("render_modules", 0))
    /\ pc = "display" =>
          /\ pc' = "sleep"
          /\ epd'.displayed = image
    /\ pc = "sleep" => pc' = "loop"
    /\ pc = "loop" => pc' = "cleanup" /\ tick_log' = tick_log

C11_CooperativeShutdown ==
    /\ [][Signalled => C11_StepAfterSignal]_vars
    /\ [](pc = "done" /\ signal_at \in LoopSteps \ {"loop"} =>
            Len(tick_log) = TickLength /\ epd.asleep /\ epd.closed)
    /\ Signalled ~> (pc = "done" /\ epd.asleep /\ epd.closed)

\* C11 witness: the signal came while the first of two updates was pending,
\* the tick ran to its end and the display was put to sleep and closed
C11_Witness ==
    /\ signal_at = "update"
    /\ pc = "done"
    /\ Len(modules) = 2
    /\ Len(tick_log) = TickLength
    /\ tick_log[TickLength].ev = "sleep"
    /\ epd.asleep
    /\ epd.closed

(***************************************************************************)
(* C12: when a data fetch fails (get_arrivals returns an empty result for  *)
(* a source, or for all sources), the departures module keeps what it      *)
(* held: the records the lists held from that source before the update()   *)
(* are still in the lists after it.                                        *)
(***************************************************************************)
FetchFailed(source) == source \in queried' /\ fetched'[source] = <<>>

C12_KeepsStateOnFailure ==
    [][\A s \in Sources :
          FetchFailed(s) =>
             \A i \in 1..Len(departures[ModeOfSource(s)]) :
                Contains(fetched[s], departures[ModeOfSource(s)][i])
                   => Contains(departures'[ModeOfSource(s)], departures[ModeOfSource(s)][i])]_vars

(***************************************************************************)
(* C13: if the computed row count of a panel is 0 because the panel is too *)
(* small for one row at the minimum line height (H < departure_font_size + *)
(* 20) while the mode's list is non-empty, _render_panel draws the single  *)
(* "No departures" placeholder, as it does when the list is empty.         *)
(***************************************************************************)
PanelAvailableHeight == size[2] - HeaderHeight - PanelHeaderHeight

C13_PlaceholderWhenNoRowFits ==
    \A mode \in Modes :
        LET p == panels[mode]
        IN  (/\ p.rendered
             /\ departures[mode] # <<>>
             /\ PanelAvailableHeight < departure_font_size + 20
             /\ p.num_rows = 0)
               => p.placeholder /\ p.rows = <<>>

(***************************************************************************)
(* C14: an arrival with no time value (no timeToStation in the raw         *)
(* arrival) is treated as unknown/large from _parse_arrival to the lists   *)
(* update() produces: in each per-mode list it comes after every record    *)
(* that has a time value, and for bus it is not removed by the             *)
(* minutes < 2 filter.                                                     *)
(***************************************************************************)
IsUntimed(d) ==
    \E a \in RawPool : "timeToStation" \notin DOMAIN a /\ ParseArrival(a) = d

C14_UntimedSortsLast ==
    /\ \A mode \in Modes :
          \A i, j \in 1..Len(departures[mode]) :
             (i < j /\ IsUntimed(departures[mode][i]))
                => IsUntimed(departures[mode][j])
    /\ \A i \in 1..Len(FetchedBus) :
          IsUntimed(FetchedBus[i]) => Contains(departures.bus, FetchedBus[i])

(***************************************************************************)
(* C15: after update(), departures['tube'] is a permutation of the records *)
(* returned by the westbound-tube and eastbound-tube sources and           *)
(* departures['bus'] a permutation of the records with minutes_until >= 2  *)
(* returned by the two bus sources: no record is lost, duplicated or moved *)
(* to the other mode; a source with no stop_id is never queried and, like  *)
(* a source that returns no records, contributes nothing.                  *)
(***************************************************************************)
Count(ds, d) == Len(SelectSeq(ds, LAMBDA e : e = d))

Records(ds) == {ds[i] : i \in 1..Len(ds)}

IsPermutation(a, b) ==
    /\ Len(a) = Len(b)
    /\ \A d \in Records(a) \cup Records(b) : Count(a, d) = Count(b, d)

C15_Permutation ==
    /\ IsPermutation(departures.tube, FetchedTube)
    /\ IsPermutation(departures.bus,
                     SelectSeq(FetchedBus, LAMBDA d : d.minutes_until >= 2))
    /\ \A s \in Sources : ~stop_ids[s] => s \notin queried /\ fetched[s] = <<>>
    /\ queried \subseteq {s \in Sources : stop_ids[s]}

\* C15 witness: the eastbound bus source has no stop_id, the queried
\* westbound bus source returned nothing, and the two tube sources returned
\* one record each that update() had to put in the other order
C15_Witness ==
    /\ ~stop_ids["eastbound_bus"]
    /\ "westbound_bus" \in queried
    /\ fetched["westbound_bus"] = <<>>
    /\ Len(fetched["westbound_tube"]) = 1
    /\ Len(fetched["eastbound_tube"]) = 1
    /\ departures.tube # FetchedTube
    /\ Len(departures.tube) = 2

(***************************************************************************)
(* C16: startup is all-or-nothing.  If loading or validating the           *)
(* configuration fails, or display initialisation fails (the driver object *)
(* cannot be made, or epd.init() raises; a driver that is not installed is *)
(* not a failure, the display then runs in mock mode), the process exits   *)
(* with a non-zero status and no module update, no render_modules pass and *)
(* no display() call ever happens; the main loop starts only after         *)
(* configuration load and display init both succeeded.                     *)
(***************************************************************************)
StartupSteps == {"setup", "init_display", "setup_modules"}

NothingRan ==
    /\ tick_log = <<>>
    /\ ~canvas_called
    /\ epd = NoSink
    /\ ~running

C16_AllOrNothing ==
    /\ boot.config_file # "valid" =>
          /\ pc \in {"setup", "exited"}
          /\ NothingRan
    /\ boot.display = "failed" =>
          /\ pc = "exited"
          /\ NothingRan
    /\ pc = "exited" => exit_status = "1"
    /\ pc \in StartupSteps => NothingRan
    /\ pc \notin StartupSteps \cup {"exited"} =>
          /\ boot.config_file = "valid"
          /\ boot.display \in {"ok", "mock"}
          /\ exit_status = "none"

\* C16 witness: the configuration loaded, epd.init() raised on the hardware,
\* and the process has exited with status 1 before anything ran
C16_Witness ==
    /\ boot.config_file = "valid"
    /\ ~boot.mock_mode
    /\ boot.driver = "installed"
    /\ boot.display = "failed"
    /\ pc = "exited"
    /\ exit_status = "1"
    /\ NothingRan

(***************************************************************************)
(* C17: font resolution never fails.  For every combination of available   *)
(* and unavailable font files and every requested size, get_default_font   *)
(* and get_bold_font return a usable font handle without raising: the      *)
(* first loadable candidate in the fixed order DejaVu, Liberation, for     *)
(* bold then the regular chain, and last the built-in font.                *)
(***************************************************************************)
RegularChain == <<DejaVuSans, LiberationSans>>
BoldChain == <<DejaVuSansBold, LiberationSansBold, DejaVuSans, LiberationSans>>

Loadable(chain) == {i \in 1..Len(chain) : font_files[chain[i]]}

FirstLoadable(chain, points) ==
    IF Loadable(chain) = {} THEN Font("builtin", 0)
    ELSE LET i == CHOOSE i \in Loadable(chain) : \A j \in Loadable(chain) : i <= j
         IN  Font(chain[i], points)

C18_OnlyEnabledUpdated ==
    \A j \in 1..Len(tick_log) :
        tick_log[j].ev \in {"update", "update_failed"}
            => modules[tick_log[j].module].enabled

(***************************************************************************)
(* C19: render is safe in every module state.  For ClockModule and         *)
(* TfLDeparturesModule, render called before any update(), or after an     *)
(* update() that failed or returned no data, never raises out of render    *)
(* and draws placeholder or stale content: the clock refreshes itself      *)
(* first and so draws a time and a date, and each departures panel without *)
(* records shows "No departures".                                          *)
(***************************************************************************)
C19_RenderSafe ==
    /\ clock_out.rendered =>
          /\ ~clock_out.raised
          /\ Len(clock_out.drawn) = 2
          /\ clock_out.drawn[1] \in Times
          /\ clock_out.drawn[2] \in Dates
    /\ \A mode \in Modes :
          (panels[mode].rendered /\ departures[mode] = <<>>) =>
              /\ panels[mode].placeholder
              /\ panels[mode].rows = <<>>

(***************************************************************************)
(* C20: for every H >= 0 and every non-empty sorted departure list of      *)
(* length N, _render_panel draws exactly min(floor(H / Lmin), N) rows with *)
(* Lmin = departure_font_size + 20; the rows drawn are the first rows of   *)
(* the list in order, only the first has is_first_row set, consecutive     *)
(* rows are spaced by the same line height, and that line height is        *)
(* >= Lmin.                                                                *)
(***************************************************************************)
MinLineHeight == departure_font_size + 20

ExpectedRows(mode) ==
    LET fit == PanelAvailableHeight \div MinLineHeight
        n == Len(departures[mode])
    IN  IF fit < n THEN fit ELSE n

C20_RowCountAndSpacing ==
    \A mode \in Modes :
        LET p == panels[mode]
            ds == departures[mode]
        IN  (p.rendered /\ PanelAvailableHeight >= 0 /\ ds # <<>>) =>
              /\ Len(p.rows) = ExpectedRows(mode)
              /\ \A i \in 1..Len(p.rows) :
                    /\ p.rows[i].departure = ds[i]
                    /\ p.rows[i].top_border = (i # 1)
                    /\ p.rows[i].bottom - p.rows[i].top >= MinLineHeight
                    /\ p.rows[i].top
                          = p.top + (i - 1) * (p.rows[1].bottom - p.rows[1].top)

\* C20 witness: the tube panel fits fewer rows than its list has, the bus
\* panel fits more rows than its list has
C20_Witness ==
    /\ panels.tube.rendered
    /\ PanelAvailableHeight >= 0
    /\ Len(departures.tube) = 4
    /\ Len(panels.tube.rows) = 2
    /\ Len(departures.bus) = 1
    /\ Len(panels.bus.rows) = 1
    /\ PanelAvailableHeight \div MinLineHeight = 2

(***************************************************************************)
(* C21: a failure in a tick neither ends the main loop nor is retried in   *)
(* that tick.  If render_modules or the display sink raises, the error is  *)
(* caught: run() goes on to the sleep of the same tick, render_modules and *)
(* display() are each called at most once per tick (display() not at all   *)
(* once render_modules has raised), cleanup is only ever entered from the  *)
(* head of the loop with the running flag cleared, and while the flag is   *)
(* set the head of the loop starts a new tick with a fresh record.         *)
(***************************************************************************)
TickEvents(evs) == SelectSeq(tick_log, LAMBDA e : e.ev \in evs)

TickFailed ==
    TickEvents({"render_modules_failed", "display_failed"}) # <<>>

C21_StepOfTick ==
    /\ pc' = "cleanup" => pc = "loop" /\ ~running
    /\ pc \in {"render", "display"} /\ pc' # pc =>
          \/ pc = "render" /\ pc' = "display" /\ r_last'.returned
          \/ pc' = "sleep"
    /\ pc = "sleep" /\ pc' # pc => pc' = "loop"
    /\ pc = "loop" /\ running /\ pc' # pc =>
          /\ pc' = IF Len(modules) > 0 THEN "update" ELSE "render"
          /\ tick_log' = <<>>

C22_SignalNeverLost == [][received => ~running']_vars

(***************************************************************************)
(* C23: no departure row is drawn in a panel whose available content       *)
(* height H = height - panel_header_height is smaller than the minimum     *)
(* line height Lmin, for every integer H, negative values included (a      *)
(* module lower than the 50-pixel header plus the 30-pixel title bar), and *)
(* every non-empty departure list: the number of rows drawn is then 0, and *)
(* it never exceeds floor(H / Lmin) when that is non-negative.             *)
(***************************************************************************)
C23_NoRowBelowMinHeight ==
    \A mode \in Modes :
        panels[mode].rendered /\ departures[mode] # <<>> =>
            /\ PanelAvailableHeight < MinLineHeight =>
                  Len(panels[mode].rows) = 0
            /\ PanelAvailableHeight >= 0 =>
                  Len(panels[mode].rows) <= PanelAvailableHeight \div MinLineHeight

(***************************************************************************)
(* C24: neither update() nor render() of a module, nor a render_modules    *)
(* pass, changes a module's position, size or enabled flag: across any     *)
(* sequence of ticks, whatever raised in them, get_bounds() returns the    *)
(* same (x, y, x + width, y + height) and is_enabled() the same value as   *)
(* right after construction by _setup_modules.                             *)
(***************************************************************************)
Built == SetupModules(config)

C24_FrameKept ==
    pc # "idle" =>
        /\ Len(modules) = Len(Built)
        /\ \A i \in 1..Len(modules) :
              /\ modules[i].position = Built[i].position
              /\ modules[i].size = Built[i].size
              /\ GetBounds(modules[i]) =
                    <<Built[i].position[1], Built[i].position[2],
                      Built[i].position[1] + Built[i].size[1],
                      Built[i].position[2] + Built[i].size[2]>>
              /\ IsEnabled(modules[i]) = Built[i].enabled

\* C24 witness: a tick has ended in which the update of a module placed by
\* its config section raised, as did its render in the pass, and a module
\* that is switched off was updated
C24_Witness ==
    /\ pc = "loop"
    /\ epd.shown
    /\ Len(modules) = 2
    /\ Len(tick_log) = TickLength
    /\ GetBounds(modules[1]) = <<10, 60, 810, 110>>
    /\ tick_log[1] = Event("update_failed", 1)
    /\ ~IsEnabled(modules[2])
    /\ tick_log[2] = Event("update", 2)
    /\ r_last.op = "render_modules"
    /\ r_last.raised = {1}

=============================================================================
